---------------------------- MODULE Spec2Model ----------------------------
(***************************************************************************)
(* The streak / XP reward engine and the request handlers of the Game of   *)
(* Becoming API (app/services.py, app/main.py).                            *)
(*                                                                         *)
(* Time is a counter of ticks, TicksPerDay ticks to a day.  A timestamp is *)
(* the tick at which it was taken; datetime.now(timezone.utc).date() is    *)
(* the UTC day of the tick, date.today() is the day of the tick shifted by *)
(* the server's timezone offset tz.                                        *)
(***************************************************************************)
EXTENDS Integers, Sequences, FiniteSets

VARIABLES
    now,         \* the clock: ticks since the epoch (UTC)
    tz,          \* the server's timezone offset, in ticks (fixed at start)
    users,       \* users table: id -> streak fields
    stats,       \* character_stats table: user id -> xp and stat points
    intentions,  \* daily_intentions table: a sequence, id = index
    blocks,      \* focus_blocks table: a sequence, id = index
    results,     \* daily_results table: a sequence, id = index
    grants,      \* history: block id -> number of XP grants made for the block
    credited,    \* history: user id -> local date of the last call of
                 \* update_user_streak that returned True (None if none)
    last,        \* history: the last call, its arguments, its response and the
                 \* addressed record as it was before the call
    inflight     \* the requests being handled side by side: worker thread ->
                 \* what its handler has read so far

vars ==
    <<now, tz, users, stats, intentions, blocks, results, grants, credited, last,
      inflight>>

---------------------------------------------------------------------------
(* Bounds of the model *)

TicksPerDay == 2      \* granularity of the clock
MaxTick == 8          \* the clock stops here
MaxTarget == 2        \* target_quantity ranges over 1..MaxTarget
MaxBlocks == 2        \* rows in focus_blocks
MaxXp == 15           \* no further XP is granted above this value
MaxStreak == 4        \* update_user_streak is not called above this streak

Users == {1, 2}
TzOffsets == {-1, 0, 1}

(* Python's None, for the nullable column last_streak_update *)
None == -1

(* float('inf'): larger than any difference of two dates *)
Infinity == 1000000

---------------------------------------------------------------------------
(* Dates *)

\* datetime.now(timezone.utc).date(), and .date() of a stored UTC timestamp
UtcDate(t) == t \div TicksPerDay

\* date.today(): the date on the server's local clock
LocalDate(t, offset) == (t + offset) \div TicksPerDay

---------------------------------------------------------------------------
(* services.py: game mechanics *)

XP_FOCUS_BLOCK_COMPLETED == 10
XP_DAILY_INTENTION_COMPLETED == 20
XP_RECOVERY_QUEST_COMPLETED == 15

\* round(): Python rounds halves to the even neighbour.  n / 100 rounded.
RoundHundredths(n) ==
    LET q == n \div 100
        r == n % 100
    IN  IF r < 50 THEN q
        ELSE IF r > 50 THEN q + 1
        ELSE IF q % 2 = 0 THEN q ELSE q + 1

\* base_xp * (1 + current_streak * 0.01) is a product of binary floating
\* point numbers.  It is within 1e-13 of the exact product, so round() sees
\* the difference only at a tie, where the exact product ends in .5: there
\* the float product is the tie itself, or lands just above or just below it.
\* The ties at which it lands beside it, for the bases 0, 10, 15, 20, 25 and
\* the streaks up to 220:
FloatAboveTie ==
    {<<10, 115>>, <<10, 165>>, <<15, 70>>, <<15, 190>>, <<25, 10>>, <<25, 14>>,
     <<25, 70>>, <<25, 186>>, <<25, 190>>}

FloatBelowTie ==
    {<<25, 118>>, <<25, 122>>, <<25, 126>>, <<25, 130>>}

\* faulty variant: the streak is taken off the product
RoundFloatProductMut(base_xp, current_streak) ==
    RoundHundredths(base_xp * (100 - current_streak))

\* round(base_xp * streak_bonus_multiplier)
RoundFloatProduct(base_xp, current_streak) ==
    LET n == base_xp * (100 + current_streak)
    IN  IF n % 100 = 50 /\ <<base_xp, current_streak>> \in FloatAboveTie
        THEN n \div 100 + 1
        ELSE IF n % 100 = 50 /\ <<base_xp, current_streak>> \in FloatBelowTie
        THEN n \div 100
        ELSE RoundHundredths(n)

CalculateXpWithStreakBonus(base_xp, current_streak) ==
    IF current_streak <= 0
    THEN base_xp
    ELSE RoundFloatProduct(base_xp, current_streak)

\* a call of _calculate_xp_with_streak_bonus: the log keeps the arguments
\* and the value returned
CalculateXp(base_xp, current_streak) ==
    /\ last' = [op |-> "_calculate_xp_with_streak_bonus", u |-> 0, id |-> 0,
                q |-> 0, s |-> "", code |-> 0, ret |-> FALSE,
                old |-> [base_xp |-> base_xp,
                         current_streak |-> current_streak,
                         xp_to_award |-> CalculateXpWithStreakBonus(
                                             base_xp, current_streak)]]
    /\ UNCHANGED <<now, tz, inflight, users, stats, intentions, blocks, results, grants,
                   credited>>

---------------------------------------------------------------------------
(* services.py: update_user_streak *)

\* faulty variant: returns early only for a date after today
AlreadyUpdatedMut(last_update, today) ==
    last_update # None /\ UtcDate(last_update) > today

\* the early return: already updated on or after today
AlreadyUpdated(last_update, today) ==
    last_update # None /\ UtcDate(last_update) >= today

\* days_since_last_update
DaysSinceLastUpdate(last_update, today) ==
    IF last_update # None THEN today - UtcDate(last_update) ELSE Infinity

\* faulty variant: a broken streak restarts at 0
NextCurrentStreakFromZero(current_streak, days) ==
    IF days = 1 THEN current_streak + 1
    ELSE IF days > 1 \/ days = Infinity THEN 0
    ELSE current_streak

\* faulty variant: forgives one missed day
NextCurrentStreakMut(current_streak, days) ==
    IF days = 1 \/ days = 2 THEN current_streak + 1
    ELSE IF days > 1 \/ days = Infinity THEN 1
    ELSE current_streak

\* faulty variant: a user never credited before keeps a streak of 0
NextCurrentStreakNoSeed(current_streak, days) ==
    IF days = 1 THEN current_streak + 1
    ELSE IF days > 1 /\ days # Infinity THEN 1
    ELSE current_streak

\* the continue / reset branches
NextCurrentStreak(current_streak, days) ==
    IF days = 1 THEN current_streak + 1
    ELSE IF days > 1 \/ days = Infinity THEN 1
    ELSE current_streak

\* faulty variant: never raises the record
NextLongestStreakKeep(longest_streak, current_streak) ==
    longest_streak

\* faulty variant: always copies the current streak
NextLongestStreakCopy(longest_streak, current_streak) ==
    current_streak

\* the record follows the current streak upwards
NextLongestStreak(longest_streak, current_streak) ==
    IF longest_streak = None \/ current_streak > longest_streak
    THEN current_streak
    ELSE longest_streak

\* Python's None, for the nullable text columns
NoText == "<null>"

\* a user row as the users table creates it
NewUser ==
    [current_streak |-> 0, longest_streak |-> 0, last_streak_update |-> None,
     hla |-> NoText]

\* a character_stats row as get_or_create_user_stats creates it
NewStats == [xp |-> 0, clarity |-> 0, discipline |-> 0, resilience |-> 0]

\* the worker threads that handle requests side by side
Workers == {1, 2}

\* a worker with no request in hand
NoRequest ==
    [op |-> "none", phase |-> "idle", u |-> 0, id |-> 0, s |-> "",
     record |-> <<>>, read |-> None, code |-> 0]

\* the log before any call
NoCall ==
    [op |-> "none", u |-> 0, id |-> 0, q |-> 0, s |-> "", code |-> 0,
     ret |-> FALSE, old |-> <<>>]

UpdateUserStreak(u) ==
    LET user == users[u]
        today == LocalDate(now, tz)
        days == DaysSinceLastUpdate(user.last_streak_update, today)
        current == NextCurrentStreak(user.current_streak, days)
    IN  /\ user.current_streak < MaxStreak
        /\ IF AlreadyUpdated(user.last_streak_update, today)
           THEN /\ UNCHANGED <<users, credited>>
                /\ last' = [NoCall EXCEPT !.op = "update_user_streak", !.u = u,
                                          !.ret = FALSE, !.old = user]
           ELSE /\ users' = [users EXCEPT ![u] =
                      [current_streak |-> current,
                       longest_streak |->
                           NextLongestStreak(user.longest_streak, current),
                       last_streak_update |-> now,
                       hla |-> user.hla]]
                /\ credited' = [credited EXCEPT ![u] = today]
                /\ last' = [NoCall EXCEPT !.op = "update_user_streak", !.u = u,
                                          !.ret = TRUE, !.old = user]
        /\ UNCHANGED <<now, tz, inflight, stats, intentions, blocks, results, grants>>

---------------------------------------------------------------------------
(* The clock *)

TickUntil(limit) ==
    /\ now < limit
    /\ now' = now + 1
    /\ UNCHANGED <<tz, inflight, users, stats, intentions, blocks, results, grants, credited,
                   last>>

Tick == TickUntil(MaxTick)

---------------------------------------------------------------------------
(* main.py: the dependencies of the endpoints *)

Min(S) == CHOOSE x \in S : \A y \in S : x <= y

\* crud.get_today_intention: the id of the user's intention created today,
\* 0 if there is none
TodayIntention(u) ==
    LET found == {i \in DOMAIN intentions :
                     /\ intentions[i].user_id = u
                     /\ UtcDate(intentions[i].created_at) = UtcDate(now)}
    IN  IF found = {} THEN 0 ELSE Min(found)

\* faulty variant: finds the block whoever owns its intention
OwnsFocusBlockMut(u, block_id) ==
    block_id \in DOMAIN blocks

\* get_owned_focus_block: the block with this id, if its intention is the
\* current user's
OwnsFocusBlock(u, block_id) ==
    /\ block_id \in DOMAIN blocks
    /\ intentions[blocks[block_id].daily_intention_id].user_id = u

Response(op, u, id, q, s, code, old) ==
    [op |-> op, u |-> u, id |-> id, q |-> q, s |-> s, code |-> code,
     ret |-> FALSE, old |-> old]

---------------------------------------------------------------------------
(* main.py: daily intention endpoints.  committed = FALSE is a request     *)
(* whose db.commit() raises: the handler rolls back and answers 500.       *)

\* faulty variant: tolerates a step back by one
ReportsLessProgressMut(reported, recorded) == reported < recorded - 1

\* the forward-progress check
ReportsLessProgress(reported, recorded) == reported < recorded

\* faulty variant: stores the report without the cap
RecordedQuantityMut(reported, target_quantity) == reported

\* faulty variant: takes the larger of the report and the target
RecordedQuantityMax(reported, target_quantity) ==
    IF reported > target_quantity THEN reported ELSE target_quantity

\* min(progress_data.completed_quantity, intention.target_quantity)
RecordedQuantity(reported, target_quantity) ==
    IF reported < target_quantity THEN reported ELSE target_quantity

\* the status an intention gets from its quantity
StatusOfQuantity(completed_quantity, target_quantity) ==
    IF completed_quantity >= target_quantity THEN "completed"
    ELSE IF completed_quantity > 0 THEN "in_progress"
    ELSE "pending"

UpdateDailyIntentionProgress(u, reported, committed) ==
    LET i == TodayIntention(u)
        op == "update_daily_intention_progress"
    IN  /\ UNCHANGED <<now, tz, inflight, users, stats, blocks, results, grants, credited>>
        /\ IF i = 0
           THEN /\ UNCHANGED intentions
                /\ last' = Response(op, u, 0, reported, "", 404, <<>>)
           ELSE IF ReportsLessProgress(reported, intentions[i].completed_quantity)
           THEN /\ UNCHANGED intentions
                /\ last' = Response(op, u, i, reported, "", 400, intentions[i])
           ELSE IF ~committed
           THEN /\ UNCHANGED intentions
                /\ last' = Response(op, u, i, reported, "", 500, intentions[i])
           ELSE LET quantity ==
                        RecordedQuantity(reported, intentions[i].target_quantity)
                IN  /\ intentions' = [intentions EXCEPT
                           ![i].completed_quantity = quantity,
                           ![i].status = StatusOfQuantity(
                               quantity, intentions[i].target_quantity)]
                    /\ last' = Response(op, u, i, reported, "", 200, intentions[i])

\* faulty variant: marks the intention completed, but keeps its quantity
CompletedIntentionMut(intention) ==
    [intention EXCEPT !.status = "completed"]

\* the row complete_daily_intention writes
CompletedIntention(intention) ==
    [intention EXCEPT !.status = "completed",
                      !.completed_quantity = intention.target_quantity]

\* faulty variant: a failed intention loses its progress
FailedIntentionMut(intention) ==
    [intention EXCEPT !.status = "failed", !.completed_quantity = 0]

\* the row fail_daily_intention writes
FailedIntention(intention) ==
    [intention EXCEPT !.status = "failed"]

CompleteDailyIntention(u, committed) ==
    LET i == TodayIntention(u)
        op == "complete_daily_intention"
    IN  /\ UNCHANGED <<now, tz, inflight, users, stats, blocks, results, grants, credited>>
        /\ IF i = 0
           THEN /\ UNCHANGED intentions
                /\ last' = Response(op, u, 0, 0, "", 404, <<>>)
           ELSE IF ~committed
           THEN /\ UNCHANGED intentions
                /\ last' = Response(op, u, i, 0, "", 500, intentions[i])
           ELSE /\ intentions' = [intentions EXCEPT
                       ![i] = CompletedIntention(intentions[i])]
                /\ last' = Response(op, u, i, 0, "", 200, intentions[i])

\* faulty variant: failing the day also resets the streak
FailDailyIntentionMut(u, committed) ==
    LET i == TodayIntention(u)
    IN  /\ i # 0 /\ committed
        /\ intentions' = [intentions EXCEPT
               ![i] = FailedIntention(intentions[i])]
        /\ users' = [users EXCEPT ![u].current_streak = 0]
        /\ last' = Response("fail_daily_intention", u, i, 0, "", 200,
                            intentions[i])
        /\ UNCHANGED <<now, tz, inflight, stats, blocks, results, grants, credited>>

FailDailyIntention(u, committed) ==
    LET i == TodayIntention(u)
        op == "fail_daily_intention"
    IN  /\ UNCHANGED <<now, tz, inflight, users, stats, blocks, results, grants, credited>>
        /\ IF i = 0
           THEN /\ UNCHANGED intentions
                /\ last' = Response(op, u, 0, 0, "", 404, <<>>)
           ELSE IF ~committed
           THEN /\ UNCHANGED intentions
                /\ last' = Response(op, u, i, 0, "", 500, intentions[i])
           ELSE /\ intentions' = [intentions EXCEPT
                       ![i] = FailedIntention(intentions[i])]
                /\ last' = Response(op, u, i, 0, "", 200, intentions[i])

---------------------------------------------------------------------------
(* main.py: focus block endpoints *)

ActiveStatuses == {"pending", "in_progress"}

\* the status a new FocusBlock row gets
DefaultBlockStatus == "pending"

\* status of a FocusBlockUpdate that leaves the field out
NoStatus == "<None>"

\* the status values a request may carry
StatusInputs == {"pending", "in_progress", "completed", " completed ", NoStatus}

\* str.strip()
Strip(s) ==
    IF s = " completed " THEN "completed"
    ELSE IF s = "   " THEN ""
    ELSE s

\* the active blocks of an intention
ActiveBlocks(i) ==
    {b \in DOMAIN blocks :
        /\ blocks[b].daily_intention_id = i
        /\ blocks[b].status \in ActiveStatuses}

\* faulty variant: the block is added before the check for an active block
CreateFocusBlockMut(u, committed) ==
    LET i == TodayIntention(u)
        op == "create_focus_block"
        added == Append(blocks,
                     [daily_intention_id |-> i, status |-> DefaultBlockStatus,
                      created_at |-> now])
    IN  /\ Len(blocks) < MaxBlocks
        /\ UNCHANGED <<now, tz, inflight, users, stats, intentions, results, credited>>
        /\ IF i = 0
           THEN /\ UNCHANGED <<blocks, grants>>
                /\ last' = Response(op, u, 0, 0, "", 404, <<>>)
           ELSE IF ~committed
           THEN /\ UNCHANGED <<blocks, grants>>
                /\ last' = Response(op, u, 0, 0, "", 500, <<>>)
           ELSE /\ blocks' = added
                /\ grants' = Append(grants, 0)
                /\ last' = IF ActiveBlocks(i) # {}
                           THEN Response(op, u, 0, 0, "", 409, <<>>)
                           ELSE Response(op, u, Len(blocks) + 1, 0, "", 201,
                                         <<>>)

CreateFocusBlock(u, committed) ==
    LET i == TodayIntention(u)
        op == "create_focus_block"
    IN  /\ Len(blocks) < MaxBlocks
        /\ UNCHANGED <<now, tz, inflight, users, stats, intentions, results, credited>>
        /\ IF i = 0
           THEN /\ UNCHANGED <<blocks, grants>>
                /\ last' = Response(op, u, 0, 0, "", 404, <<>>)
           ELSE IF ActiveBlocks(i) # {}
           THEN /\ UNCHANGED <<blocks, grants>>
                /\ last' = Response(op, u, 0, 0, "", 409, <<>>)
           ELSE IF ~committed
           THEN /\ UNCHANGED <<blocks, grants>>
                /\ last' = Response(op, u, 0, 0, "", 500, <<>>)
           ELSE /\ blocks' = Append(blocks,
                       [daily_intention_id |-> i, status |-> DefaultBlockStatus,
                        created_at |-> now])
                /\ grants' = Append(grants, 0)
                /\ last' = Response(op, u, Len(blocks) + 1, 0, "", 201, <<>>)

\* faulty variant: the bonus is one point for each day of the streak
CompleteFocusBlockXpMut(u) ==
    XP_FOCUS_BLOCK_COMPLETED + users[u].current_streak

\* faulty variant: awards every request that says "completed"
CompletesBlockMut(requested, current) == requested = "completed"

\* "marked as completed for the first time"
CompletesBlock(requested, current) ==
    requested = "completed" /\ current # "completed"

\* services.complete_focus_block
CompleteFocusBlockXp(u) ==
    CalculateXpWithStreakBonus(XP_FOCUS_BLOCK_COMPLETED, users[u].current_streak)

\* faulty variant: the award is taken off the XP
XpAfterAwardMut(xp, xp_awarded) ==
    IF xp_awarded > 0 THEN xp - xp_awarded ELSE xp

\* "Apply stat changes from the service call"
XpAfterAward(xp, xp_awarded) ==
    IF xp_awarded > 0 THEN xp + xp_awarded ELSE xp

\* faulty variant: only a block dated after today is refused
FromPreviousDayMut(block) == UtcDate(block.created_at) > UtcDate(now)

\* block.created_at.date() != today
FromPreviousDay(block) == UtcDate(block.created_at) # UtcDate(now)

UpdateFocusBlock(u, block_id, requested, committed) ==
    LET op == "update_focus_block"
    IN  /\ stats[u].xp <= MaxXp
        /\ UNCHANGED <<now, tz, inflight, users, intentions, results, credited>>
        /\ IF ~OwnsFocusBlock(u, block_id)
           THEN /\ UNCHANGED <<blocks, stats, grants>>
                /\ last' = Response(op, u, block_id, 0, requested, 404, <<>>)
           ELSE IF FromPreviousDay(blocks[block_id])
           THEN /\ UNCHANGED <<blocks, stats, grants>>
                /\ last' = Response(op, u, block_id, 0, requested, 403,
                                    blocks[block_id])
           ELSE IF ~committed
           THEN /\ UNCHANGED <<blocks, stats, grants>>
                /\ last' = Response(op, u, block_id, 0, requested, 500,
                                    blocks[block_id])
           ELSE LET xp_awarded ==
                        IF CompletesBlock(requested, blocks[block_id].status)
                        THEN CompleteFocusBlockXp(u) ELSE 0
                IN  /\ blocks' = IF requested # NoStatus
                                 THEN [blocks EXCEPT
                                          ![block_id].status = Strip(requested)]
                                 ELSE blocks
                    /\ stats' = [stats EXCEPT
                           ![u].xp = XpAfterAward(@, xp_awarded)]
                    /\ grants' = IF xp_awarded > 0
                                 THEN [grants EXCEPT ![block_id] = @ + 1]
                                 ELSE grants
                    /\ last' = Response(op, u, block_id, 0, requested, 200,
                                        blocks[block_id])

---------------------------------------------------------------------------
(* services.py: the simulated AI calls.  ai_disabled is the test of the     *)
(* environment variable DISABLE_AI_CALLS each function makes.              *)

\* bool() of an Optional[str]: None and the empty string are false
Truthy(text) == text # NoText /\ text # ""

\* The service functions are coroutine functions and the handlers, plain
\* functions, call them without await: what the handler holds is the
\* coroutine.  "dict" is the value the coroutine returns to a caller that
\* awaits it.
ServiceCalls == {"coroutine", "dict"}

\* create_and_process_intention: both paths approve the intention
CreateAndProcessIntention(ai_disabled) ==
    [needs_refinement |-> FALSE, clarity_stat_gain |-> 1]

\* an analysis that finds the intention not strong enough
\* (IntentionAnalysisResponse with is_strong_intention false); the two
\* paths of create_and_process_intention never return it, a service that
\* analyses the text does
RefinementResult == [needs_refinement |-> TRUE, clarity_stat_gain |-> 0]

\* the service calls of create_daily_intention: the two above and a call
\* whose analysis asks for refinement
IntentionServiceCalls == ServiceCalls \cup {"refinement"}

\* process_result as the handler reads it
ProcessResult(service, ai_disabled) ==
    IF service = "refinement"
    THEN RefinementResult
    ELSE CreateAndProcessIntention(ai_disabled)

\* the mock quest of the AI-disabled path
MockRecoveryQuest == "What was the main obstacle?"

\* faulty variant: only a day given up counts as not succeeded
SucceededMut(daily_intention) == daily_intention.status # "failed"

\* succeeded, as create_daily_reflection sets it first
Succeeded(daily_intention) == daily_intention.status = "completed"

\* create_daily_reflection
CreateDailyReflection(user, daily_intention, ai_disabled) ==
    LET succeeded == Succeeded(daily_intention)
        xp_to_award ==
            IF succeeded
            THEN CalculateXpWithStreakBonus(XP_DAILY_INTENTION_COMPLETED,
                                            user.current_streak)
            ELSE 0
    IN  IF ai_disabled
        THEN IF succeeded
             THEN [succeeded |-> TRUE, recovery_quest |-> NoText,
                   discipline_stat_gain |-> 1, xp_awarded |-> xp_to_award]
             ELSE [succeeded |-> FALSE, recovery_quest |-> MockRecoveryQuest,
                   discipline_stat_gain |-> 0, xp_awarded |-> 0]
        ELSE [succeeded |-> succeeded, recovery_quest |-> NoText,
              discipline_stat_gain |-> 1, xp_awarded |-> xp_to_award]

\* process_recovery_quest_response: both paths return the same gains
ProcessRecoveryQuestResponse(user, ai_disabled) ==
    [resilience_stat_gain |-> 1,
     xp_awarded |-> CalculateXpWithStreakBonus(XP_RECOVERY_QUEST_COMPLETED,
                                               user.current_streak)]

---------------------------------------------------------------------------
(* main.py: creation of the daily intention *)

MaxIntentions == 2    \* rows in daily_intentions

\* the row create_daily_intention adds
CreatedIntention(u, target, created_at) ==
    [user_id |-> u, created_at |-> created_at, target_quantity |-> target,
     completed_quantity |-> 0, status |-> "pending"]

\* faulty variant: the check for today's intention finds nothing
ExistingIntentionMut(u) == 0

\* existing_intention
ExistingIntention(u) == TodayIntention(u)

\* faulty variant: the clarity point is committed on its own, before the
\* intention row
CreateDailyIntentionMut(u, target, service, ai_disabled, committed) ==
    LET op == "create_daily_intention"
        process_result == ProcessResult(service, ai_disabled)
    IN  /\ Len(intentions) < MaxIntentions \/ ExistingIntention(u) # 0
        /\ UNCHANGED <<now, tz, inflight, users, blocks, results, grants, credited>>
        /\ IF ExistingIntention(u) # 0
           THEN /\ UNCHANGED <<intentions, stats>>
                /\ last' = Response(op, u, 0, target, "", 400, <<>>)
           ELSE IF service = "coroutine"
           THEN /\ UNCHANGED <<intentions, stats>>
                /\ last' = Response(op, u, 0, target, "", 500, <<>>)
           ELSE IF ~committed
           THEN /\ UNCHANGED intentions
                /\ stats' = [stats EXCEPT
                       ![u].clarity = @ + process_result.clarity_stat_gain]
                /\ last' = Response(op, u, 0, target, "", 500, <<>>)
           ELSE /\ intentions' =
                       Append(intentions, CreatedIntention(u, target, now))
                /\ stats' = [stats EXCEPT
                       ![u].clarity = @ + process_result.clarity_stat_gain]
                /\ last' = Response(op, u, Len(intentions) + 1, target, "", 201,
                                    <<>>)

CreateDailyIntention(u, target, service, ai_disabled, committed) ==
    LET op == "create_daily_intention"
        process_result == ProcessResult(service, ai_disabled)
    IN  /\ Len(intentions) < MaxIntentions \/ ExistingIntention(u) # 0
        /\ UNCHANGED <<now, tz, inflight, users, blocks, results, grants, credited>>
        /\ IF ExistingIntention(u) # 0
           THEN /\ UNCHANGED <<intentions, stats>>
                /\ last' = Response(op, u, 0, target, "", 400, <<>>)
           ELSE IF service = "coroutine"
           THEN \* process_result["needs_refinement"] raises TypeError
                /\ UNCHANGED <<intentions, stats>>
                /\ last' = Response(op, u, 0, target, "", 500, <<>>)
           ELSE IF process_result.needs_refinement
           THEN /\ UNCHANGED <<intentions, stats>>
                /\ last' = Response(op, u, 0, target, "", 201, <<>>)
           ELSE IF ~committed
           THEN /\ UNCHANGED <<intentions, stats>>
                /\ last' = Response(op, u, 0, target, "", 500, <<>>)
           ELSE /\ intentions' =
                       Append(intentions, CreatedIntention(u, target, now))
                /\ stats' = [stats EXCEPT
                       ![u].clarity = @ + process_result.clarity_stat_gain]
                /\ last' = Response(op, u, Len(intentions) + 1, target, "", 201,
                                    <<>>)

---------------------------------------------------------------------------
(* main.py: daily result endpoints *)

MaxResilience == 2    \* no further response is submitted above this value

\* the recovery_quest_response values a request may carry
ResponseInputs == {"I reflected.", "   "}

\* the results of an intention
ResultsOf(i) == {r \in DOMAIN results : results[r].daily_intention_id = i}

\* faulty variant: the check for an existing result finds nothing
ExistingResultMut(i) == 0

\* existing_result
ExistingResult(i) == IF ResultsOf(i) = {} THEN 0 ELSE Min(ResultsOf(i))

\* get_owned_daily_result_by_result_id: the result with this id, if its
\* intention is the current user's
OwnsDailyResult(u, result_id) ==
    /\ result_id \in DOMAIN results
    /\ intentions[results[result_id].daily_intention_id].user_id = u

\* get_owned_daily_result_by_intention_id: the first result of this
\* intention, if the intention is the current user's; 0 if there is none
OwnedResultOfIntention(u, intention_id) ==
    LET found == {r \in DOMAIN results :
                     /\ results[r].daily_intention_id = intention_id
                     /\ intentions[intention_id].user_id = u}
    IN  IF found = {} THEN 0 ELSE Min(found)

\* GET /daily-results/{intention_id}: the dependency does all the work
GetDailyResult(u, intention_id) ==
    LET op == "get_daily_result"
        r == OwnedResultOfIntention(u, intention_id)
    IN  /\ UNCHANGED <<now, tz, inflight, users, stats, intentions, blocks,
                       results, grants, credited>>
        /\ last' = IF r = 0
                   THEN Response(op, u, intention_id, 0, "", 404, <<>>)
                   ELSE Response(op, u, intention_id, 0, "", 200, results[r])

CreateDailyResult(u, service, ai_disabled, committed) ==
    LET op == "create_daily_result"
        i == TodayIntention(u)
    IN  /\ UNCHANGED <<now, tz, inflight, users, intentions, blocks, grants, credited>>
        /\ IF i = 0
           THEN /\ UNCHANGED <<results, stats>>
                /\ last' = Response(op, u, 0, 0, "", 404, <<>>)
           ELSE IF ExistingResult(i) # 0
           THEN /\ UNCHANGED <<results, stats>>
                /\ last' = Response(op, u, i, 0, "", 400, intentions[i])
           ELSE IF service = "coroutine"
           THEN \* reflection_data["succeeded"] raises TypeError: rollback
                /\ UNCHANGED <<results, stats>>
                /\ last' = Response(op, u, i, 0, "", 500, intentions[i])
           ELSE IF ~committed
           THEN /\ UNCHANGED <<results, stats>>
                /\ last' = Response(op, u, i, 0, "", 500, intentions[i])
           ELSE LET reflection_data ==
                        CreateDailyReflection(users[u], intentions[i],
                                              ai_disabled)
                IN  /\ results' = Append(results,
                           [daily_intention_id |-> i,
                            succeeded_failed |-> reflection_data.succeeded,
                            recovery_quest |-> reflection_data.recovery_quest,
                            recovery_quest_response |-> NoText])
                    /\ stats' = [stats EXCEPT ![u].discipline =
                           @ + reflection_data.discipline_stat_gain]
                    /\ last' = Response(op, u, i, 0, "", 201, intentions[i])

RespondToRecoveryQuest(u, result_id, text, service, ai_disabled, committed) ==
    LET op == "respond_to_recovery_quest"
    IN  /\ stats[u].resilience < MaxResilience
        /\ UNCHANGED <<now, tz, inflight, users, intentions, blocks, grants, credited>>
        /\ IF ~OwnsDailyResult(u, result_id)
           THEN /\ UNCHANGED <<results, stats>>
                /\ last' = Response(op, u, result_id, 0, text, 404, <<>>)
           ELSE IF ~Truthy(results[result_id].recovery_quest)
           THEN /\ UNCHANGED <<results, stats>>
                /\ last' = Response(op, u, result_id, 0, text, 400,
                                    results[result_id])
           ELSE IF Truthy(results[result_id].recovery_quest_response)
           THEN /\ UNCHANGED <<results, stats>>
                /\ last' = Response(op, u, result_id, 0, text, 400,
                                    results[result_id])
           ELSE IF service = "coroutine"
           THEN \* coaching_data.get raises AttributeError: rollback
                /\ UNCHANGED <<results, stats>>
                /\ last' = Response(op, u, result_id, 0, text, 500,
                                    results[result_id])
           ELSE IF ~committed
           THEN /\ UNCHANGED <<results, stats>>
                /\ last' = Response(op, u, result_id, 0, text, 500,
                                    results[result_id])
           ELSE LET coaching_data ==
                        ProcessRecoveryQuestResponse(users[u], ai_disabled)
                IN  /\ results' = [results EXCEPT
                           ![result_id].recovery_quest_response = Strip(text)]
                    /\ stats' = [stats EXCEPT ![u].resilience =
                           @ + coaching_data.resilience_stat_gain]
                    /\ last' = Response(op, u, result_id, 0, text, 200,
                                        results[result_id])

---------------------------------------------------------------------------
(* Requests handled side by side.  The handlers are plain functions, which *)
(* the server runs on worker threads, each with a database session of its  *)
(* own; nothing in main.py locks a row or a table.  A handler is split     *)
(* where it has read what it decides on and has not written yet: the       *)
(* other worker may run in between.                                        *)

\* the worker can take a request
Free(w) == inflight[w].phase # "checked"

\* create_focus_block up to the check for an active block
CreateFocusBlockCheck(w, u) ==
    LET i == TodayIntention(u)
        op == "create_focus_block"
    IN  /\ Free(w)
        /\ Len(blocks) < MaxBlocks
        /\ UNCHANGED <<now, tz, users, stats, intentions, blocks, results,
                       grants, credited>>
        /\ IF i = 0
           THEN /\ last' = Response(op, u, 0, 0, "", 404, <<>>)
                /\ inflight' = [inflight EXCEPT ![w] = NoRequest]
           ELSE IF ActiveBlocks(i) # {}
           THEN /\ last' = Response(op, u, 0, 0, "", 409, <<>>)
                /\ inflight' = [inflight EXCEPT ![w] = NoRequest]
           ELSE /\ last' = last
                /\ inflight' = [inflight EXCEPT ![w] =
                       [NoRequest EXCEPT !.op = op, !.phase = "checked",
                                         !.u = u, !.id = i]]

\* faulty variant: the insert looks for an active block once more
CreateFocusBlockWriteMut(w, committed) ==
    LET request == inflight[w]
        op == "create_focus_block"
        code == IF ActiveBlocks(request.id) # {} THEN 409
                ELSE IF committed THEN 201 ELSE 500
    IN  /\ request.phase = "checked"
        /\ request.op = op
        /\ UNCHANGED <<now, tz, users, stats, intentions, results, credited>>
        /\ inflight' = [inflight EXCEPT ![w].phase = "done", ![w].code = code]
        /\ IF code # 201
           THEN /\ UNCHANGED <<blocks, grants>>
                /\ last' = Response(op, request.u, 0, 0, "", code, <<>>)
           ELSE /\ blocks' = Append(blocks,
                       [daily_intention_id |-> request.id,
                        status |-> DefaultBlockStatus, created_at |-> now])
                /\ grants' = Append(grants, 0)
                /\ last' = Response(op, request.u, Len(blocks) + 1, 0, "", 201,
                                    <<>>)

\* create_focus_block from the insert to the response
CreateFocusBlockWrite(w, committed) ==
    LET request == inflight[w]
        op == "create_focus_block"
        code == IF committed THEN 201 ELSE 500
    IN  /\ request.phase = "checked"
        /\ request.op = op
        /\ UNCHANGED <<now, tz, users, stats, intentions, results, credited>>
        /\ inflight' = [inflight EXCEPT ![w].phase = "done", ![w].code = code]
        /\ IF code # 201
           THEN /\ UNCHANGED <<blocks, grants>>
                /\ last' = Response(op, request.u, 0, 0, "", code, <<>>)
           ELSE /\ blocks' = Append(blocks,
                       [daily_intention_id |-> request.id,
                        status |-> DefaultBlockStatus, created_at |-> now])
                /\ grants' = Append(grants, 0)
                /\ last' = Response(op, request.u, Len(blocks) + 1, 0, "", 201,
                                    <<>>)

\* the stats row is read by the get_current_user_stats dependency, before
\* the handler's body; late = TRUE is the schedule in which the other
\* worker's commit falls before that read, so that the value read is the
\* one at the time of the write
StatsRead(u, field, late) == IF late THEN None ELSE stats[u][field]

\* faulty variant: the gain is added to the value in the table
StatAfterGainMut(read, current, gain) == current + gain

\* "stats.x += gain" on the row as this session read it
StatAfterGain(read, current, gain) ==
    (IF read = None THEN current ELSE read) + gain

\* update_focus_block: the dependencies load the block and then the stats
UpdateFocusBlockLoad(w, u, block_id, requested, late) ==
    LET op == "update_focus_block"
    IN  /\ Free(w)
        /\ stats[u].xp <= MaxXp
        /\ UNCHANGED <<now, tz, users, stats, intentions, blocks, results,
                       grants, credited>>
        /\ IF ~OwnsFocusBlock(u, block_id)
           THEN /\ last' = Response(op, u, block_id, 0, requested, 404, <<>>)
                /\ inflight' = [inflight EXCEPT ![w] = NoRequest]
           ELSE /\ last' = last
                /\ inflight' = [inflight EXCEPT ![w] =
                       [NoRequest EXCEPT
                           !.op = op, !.phase = "checked", !.u = u,
                           !.id = block_id, !.s = requested,
                           !.record = blocks[block_id],
                           !.read = StatsRead(u, "xp", late)]]

\* update_focus_block: the body, on the block as it was loaded
UpdateFocusBlockWrite(w, committed) ==
    LET request == inflight[w]
        op == "update_focus_block"
        u == request.u
        block == request.record
        code == IF FromPreviousDay(block) THEN 403
                ELSE IF committed THEN 200 ELSE 500
        xp_awarded == IF CompletesBlock(request.s, block.status)
                      THEN CompleteFocusBlockXp(u) ELSE 0
    IN  /\ request.phase = "checked"
        /\ request.op = op
        /\ UNCHANGED <<now, tz, users, intentions, results, credited>>
        /\ inflight' = [inflight EXCEPT ![w].phase = "done", ![w].code = code]
        /\ last' = Response(op, u, request.id, 0, request.s, code, block)
        /\ IF code # 200
           THEN UNCHANGED <<blocks, stats, grants>>
           ELSE /\ blocks' = IF request.s # NoStatus
                             THEN [blocks EXCEPT
                                      ![request.id].status = Strip(request.s)]
                             ELSE blocks
                /\ stats' = IF xp_awarded > 0
                            THEN [stats EXCEPT ![u].xp =
                                     StatAfterGain(request.read, @, xp_awarded)]
                            ELSE stats
                /\ grants' = IF xp_awarded > 0
                             THEN [grants EXCEPT ![request.id] = @ + 1]
                             ELSE grants

\* create_daily_result: the dependencies load the intention and the stats,
\* then the body looks for a result
CreateDailyResultCheck(w, u) ==
    LET op == "create_daily_result"
        i == TodayIntention(u)
    IN  /\ Free(w)
        /\ UNCHANGED <<now, tz, users, stats, intentions, blocks, results,
                       grants, credited>>
        /\ IF i = 0
           THEN /\ last' = Response(op, u, 0, 0, "", 404, <<>>)
                /\ inflight' = [inflight EXCEPT ![w] = NoRequest]
           ELSE IF ExistingResult(i) # 0
           THEN /\ last' = Response(op, u, i, 0, "", 400, intentions[i])
                /\ inflight' = [inflight EXCEPT ![w] = NoRequest]
           ELSE /\ last' = last
                /\ inflight' = [inflight EXCEPT ![w] =
                       [NoRequest EXCEPT
                           !.op = op, !.phase = "checked", !.u = u, !.id = i,
                           !.record = intentions[i],
                           !.read = StatsRead(u, "discipline", FALSE)]]

\* create_daily_result: the service call, the insert and the commit
CreateDailyResultWrite(w, service, ai_disabled, committed) ==
    LET request == inflight[w]
        op == "create_daily_result"
        u == request.u
        code == IF service = "coroutine" \/ ~committed THEN 500 ELSE 201
        reflection_data ==
            CreateDailyReflection(users[u], request.record, ai_disabled)
    IN  /\ request.phase = "checked"
        /\ request.op = op
        /\ UNCHANGED <<now, tz, users, intentions, blocks, grants, credited>>
        /\ inflight' = [inflight EXCEPT ![w].phase = "done", ![w].code = code]
        /\ last' = Response(op, u, request.id, 0, "", code, request.record)
        /\ IF code # 201
           THEN UNCHANGED <<results, stats>>
           ELSE /\ results' = Append(results,
                       [daily_intention_id |-> request.id,
                        succeeded_failed |-> reflection_data.succeeded,
                        recovery_quest |-> reflection_data.recovery_quest,
                        recovery_quest_response |-> NoText])
                /\ stats' = [stats EXCEPT ![u].discipline =
                       StatAfterGain(request.read, @,
                                     reflection_data.discipline_stat_gain)]

\* respond_to_recovery_quest: the dependencies load the result and then
\* the stats; the two checks are made on the result as it was loaded
RespondToRecoveryQuestCheck(w, u, result_id, text, late) ==
    LET op == "respond_to_recovery_quest"
    IN  /\ Free(w)
        /\ stats[u].resilience < MaxResilience
        /\ UNCHANGED <<now, tz, users, stats, intentions, blocks, results,
                       grants, credited>>
        /\ IF ~OwnsDailyResult(u, result_id)
           THEN /\ last' = Response(op, u, result_id, 0, text, 404, <<>>)
                /\ inflight' = [inflight EXCEPT ![w] = NoRequest]
           ELSE IF \/ ~Truthy(results[result_id].recovery_quest)
                   \/ Truthy(results[result_id].recovery_quest_response)
           THEN /\ last' = Response(op, u, result_id, 0, text, 400,
                                    results[result_id])
                /\ inflight' = [inflight EXCEPT ![w] = NoRequest]
           ELSE /\ last' = last
                /\ inflight' = [inflight EXCEPT ![w] =
                       [NoRequest EXCEPT
                           !.op = op, !.phase = "checked", !.u = u,
                           !.id = result_id, !.s = text,
                           !.record = results[result_id],
                           !.read = StatsRead(u, "resilience", late)]]

\* respond_to_recovery_quest: the service call, the writes and the commit
RespondToRecoveryQuestWrite(w, service, ai_disabled, committed) ==
    LET request == inflight[w]
        op == "respond_to_recovery_quest"
        u == request.u
        code == IF service = "coroutine" \/ ~committed THEN 500 ELSE 200
        coaching_data == ProcessRecoveryQuestResponse(users[u], ai_disabled)
    IN  /\ request.phase = "checked"
        /\ request.op = op
        /\ UNCHANGED <<now, tz, users, intentions, blocks, grants, credited>>
        /\ inflight' = [inflight EXCEPT ![w].phase = "done", ![w].code = code]
        /\ last' = Response(op, u, request.id, 0, request.s, code,
                            request.record)
        /\ IF code # 200
           THEN UNCHANGED <<results, stats>>
           ELSE /\ results' = [results EXCEPT
                       ![request.id].recovery_quest_response =
                           Strip(request.s)]
                /\ stats' = [stats EXCEPT ![u].resilience =
                       StatAfterGain(request.read, @,
                                     coaching_data.resilience_stat_gain)]

---------------------------------------------------------------------------
(* The onboarding conversation, POST /api/onboarding/step.  The handler   *)
(* keeps nothing between calls: the caller names the step it answers.     *)

\* schemas.OnboardingStepName, in the order of the conversation
OnboardingStepName ==
    <<"AWAITING_BUSINESS_STAGE", "AWAITING_STRETCH_GOAL",
      "AWAITING_CONSTRAINT_CHOICE", "AWAITING_OBSTACLE_DEFINITION",
      "AWAITING_HLA_DEFINITION", "COMPLETE">>

\* the steps a caller answers, and a step name the enumeration lacks
AnswerableSteps == {OnboardingStepName[i] : i \in 1..5}
StepInputs == AnswerableSteps \cup {"AWAITING_NOTHING"}
HlaInputs == {"Send 15 emails", "Call 5 leads"}

StepIndex(step) ==
    CHOOSE i \in DOMAIN OnboardingStepName : OnboardingStepName[i] = step

\* faulty variant: the first two answers lead to the same question
NextStepMut(current_step) ==
    IF StepIndex(current_step) = 1
    THEN OnboardingStepName[3]
    ELSE OnboardingStepName[StepIndex(current_step) + 1]

\* the step the answer to current_step leads to
NextStep(current_step) == OnboardingStepName[StepIndex(current_step) + 1]

\* faulty variant: every answer is stored as the guiding goal
IsFinalStepMut(current_step) == current_step \in AnswerableSteps

\* the answer to the last question completes the onboarding
IsFinalStep(current_step) == current_step = "AWAITING_HLA_DEFINITION"

OnboardingStep(u, current_step, user_text) ==
    LET user == users[u]
        today == LocalDate(now, tz)
        days == DaysSinceLastUpdate(user.last_streak_update, today)
        current == NextCurrentStreak(user.current_streak, days)
        log == [current_step |-> current_step, user_text |-> user_text,
                user |-> user]
    IN  /\ user.current_streak < MaxStreak
        /\ IF current_step \notin AnswerableSteps
           THEN /\ last' = Response("onboarding_step", u, 0, 0, "", 422, log)
                /\ UNCHANGED <<users, credited>>
           ELSE IF ~IsFinalStep(current_step)
           THEN /\ last' = Response("onboarding_step", u, 0, 0,
                                    NextStep(current_step), 200, log)
                /\ UNCHANGED <<users, credited>>
           ELSE IF AlreadyUpdated(user.last_streak_update, today)
           THEN /\ users' = [users EXCEPT ![u].hla = user_text]
                /\ last' = Response("onboarding_step", u, 0, 0,
                                    NextStep(current_step), 200, log)
                /\ UNCHANGED credited
           ELSE /\ users' = [users EXCEPT ![u] =
                      [current_streak |-> current,
                       longest_streak |->
                           NextLongestStreak(user.longest_streak, current),
                       last_streak_update |-> now,
                       hla |-> user_text]]
                /\ credited' = [credited EXCEPT ![u] = today]
                /\ last' = Response("onboarding_step", u, 0, 0,
                                    NextStep(current_step), 200, log)
        /\ UNCHANGED <<now, tz, inflight, stats, intentions, blocks, results, grants>>

---------------------------------------------------------------------------
(* Initial states: new users, and the rows the database holds at start *)

NewIntention(u, target) ==
    [user_id |-> u, created_at |-> TicksPerDay, target_quantity |-> target,
     completed_quantity |-> 0, status |-> "pending"]

InitCommon ==
    /\ now = TicksPerDay
    /\ users = [u \in Users |-> NewUser]
    /\ stats = [u \in Users |-> NewStats]
    /\ blocks = <<>>
    /\ results = <<>>
    /\ grants = <<>>
    /\ credited = [u \in Users |-> None]
    /\ last = NoCall
    /\ inflight = [w \in Workers |-> NoRequest]

\* the streak engine alone: no intention rows
InitStreak ==
    /\ InitCommon
    /\ tz \in TzOffsets
    /\ intentions = <<>>

NextStreak ==
    \/ Tick
    \/ \E u \in Users : UpdateUserStreak(u)

SpecStreak == InitStreak /\ [][NextStreak]_vars

\* the XP formula alone, called with every base and streak of the bounds
MaxStreakXp == 170

BaseInputs == {0, 10, 15, 20, 25}
StreakInputs == -2..MaxStreakXp

NextXp ==
    \E base_xp \in BaseInputs, current_streak \in StreakInputs :
        CalculateXp(base_xp, current_streak)

SpecXp == InitStreak /\ [][NextXp]_vars

\* the daily intention endpoints: each user may hold an intention for today
MaxTickRequests == 4

\* onboarding next to the streak engine, for one user
InitOnboarding ==
    /\ InitCommon
    /\ tz = 0
    /\ intentions = <<>>

NextOnboarding ==
    \/ TickUntil(MaxTickRequests)
    \/ UpdateUserStreak(1)
    \/ \E current_step \in StepInputs, user_text \in HlaInputs :
          OnboardingStep(1, current_step, user_text)

SpecOnboarding == InitOnboarding /\ [][NextOnboarding]_vars

InitIntention ==
    /\ InitCommon
    /\ tz = 0
    /\ \E t1 \in 1..MaxTarget, t2 \in 0..MaxTarget :
          intentions = IF t2 = 0 THEN <<NewIntention(1, t1)>>
                       ELSE <<NewIntention(1, t1), NewIntention(2, t2)>>

NextIntention ==
    \/ TickUntil(MaxTickRequests)
    \/ \E u \in Users, reported \in -1..(MaxTarget + 1), committed \in BOOLEAN :
          UpdateDailyIntentionProgress(u, reported, committed)
    \/ \E u \in Users, committed \in BOOLEAN : CompleteDailyIntention(u, committed)
    \/ \E u \in Users, committed \in BOOLEAN : FailDailyIntention(u, committed)

SpecIntention == InitIntention /\ [][NextIntention]_vars

\* the focus block endpoints: user 1 holds an intention for today, user 2
\* holds none
InitBlocks ==
    /\ InitCommon
    /\ tz = 0
    /\ intentions = <<NewIntention(1, 1)>>

NextBlocks ==
    \/ TickUntil(MaxTickRequests)
    \/ \E u \in Users, committed \in BOOLEAN : CreateFocusBlock(u, committed)
    \/ \E u \in Users, block_id \in 1..MaxBlocks, requested \in StatusInputs,
          committed \in BOOLEAN :
          UpdateFocusBlock(u, block_id, requested, committed)

SpecBlocks == InitBlocks /\ [][NextBlocks]_vars

\* the daily loop: user 1 creates an intention, works on it, closes the day
\* with a daily result and answers the recovery quest; user 2, who holds no
\* intention, sends the same requests
MaxTickDaily == 4
MaxTargetDaily == 1

InitDaily ==
    /\ InitCommon
    /\ tz = 0
    /\ intentions = <<>>

NextDaily ==
    \/ TickUntil(MaxTickDaily)
    \/ \E target \in 1..MaxTargetDaily, service \in ServiceCalls,
          ai_disabled \in BOOLEAN, committed \in BOOLEAN :
          CreateDailyIntention(1, target, service, ai_disabled, committed)
    \/ \E u \in Users, reported \in 0..MaxTargetDaily :
          UpdateDailyIntentionProgress(u, reported, TRUE)
    \/ \E u \in Users : CompleteDailyIntention(u, TRUE)
    \/ \E u \in Users : FailDailyIntention(u, TRUE)
    \/ \E u \in Users, service \in ServiceCalls, ai_disabled \in BOOLEAN,
          committed \in BOOLEAN :
          CreateDailyResult(u, service, ai_disabled, committed)
    \/ \E u \in Users, result_id \in 1..MaxIntentions, text \in ResponseInputs,
          service \in ServiceCalls, ai_disabled \in BOOLEAN,
          committed \in BOOLEAN :
          RespondToRecoveryQuest(u, result_id, text, service, ai_disabled,
                                 committed)

SpecDaily == InitDaily /\ [][NextDaily]_vars

\* the whole service on one clock: the streak engine and every endpoint, as
\* user 1 calls them on a server that runs on UTC and whose commits succeed,
\* with at most MaxBlocksService focus blocks
MaxBlocksService == 1

Init ==
    /\ InitCommon
    /\ tz = 0
    /\ intentions = <<NewIntention(1, 1)>>

Next ==
    \/ Tick
    \/ UpdateUserStreak(1)
    \/ \E reported \in -1..(intentions[1].target_quantity + 1) :
          UpdateDailyIntentionProgress(1, reported, TRUE)
    \/ CompleteDailyIntention(1, TRUE)
    \/ FailDailyIntention(1, TRUE)
    \/ Len(blocks) < MaxBlocksService /\ CreateFocusBlock(1, TRUE)
    \/ \E block_id \in 1..MaxBlocksService, requested \in StatusInputs :
          UpdateFocusBlock(1, block_id, requested, TRUE)

Spec == Init /\ [][Next]_vars

\* the rewards of a day: user 1 works on today's intention and its focus
\* block, closes the day and answers the recovery quest, while the streak
\* engine runs; every service call and every commit succeeds.  User 1 is new,
\* or has kept a streak for ten days up to yesterday.
VeteranUser ==
    [current_streak |-> 10, longest_streak |-> 10,
     last_streak_update |-> TicksPerDay - 1, hla |-> "Ship daily"]

InitRewards ==
    /\ now = TicksPerDay
    /\ tz = 0
    /\ users \in {[u \in Users |-> NewUser],
                  [u \in Users |-> IF u = 1 THEN VeteranUser ELSE NewUser]}
    /\ stats = [u \in Users |-> NewStats]
    /\ intentions = <<NewIntention(1, 1)>>
    /\ blocks = <<>>
    /\ results = <<>>
    /\ grants = <<>>
    /\ credited = [u \in Users |-> None]
    /\ last = NoCall
    /\ inflight = [w \in Workers |-> NoRequest]

NextRewards ==
    \/ TickUntil(MaxTickRequests)
    \/ UpdateUserStreak(1)
    \/ \E reported \in 0..1 : UpdateDailyIntentionProgress(1, reported, TRUE)
    \/ CompleteDailyIntention(1, TRUE)
    \/ FailDailyIntention(1, TRUE)
    \/ Len(blocks) < MaxBlocksService /\ CreateFocusBlock(1, TRUE)
    \/ \E block_id \in 1..MaxBlocksService,
          requested \in {"in_progress", "completed"} :
          UpdateFocusBlock(1, block_id, requested, TRUE)
    \/ \E ai_disabled \in BOOLEAN : CreateDailyResult(1, "dict", ai_disabled, TRUE)
    \/ RespondToRecoveryQuest(1, 1, "I reflected.", "dict", TRUE, TRUE)

SpecRewards == InitRewards /\ [][NextRewards]_vars

\* every endpoint for one user and one day's intention, with the requests
\* that are refused and the requests whose service call or commit fails
MaxIntentionsErrors == 1

InitErrors ==
    /\ InitCommon
    /\ tz = 0
    /\ intentions = <<>>

NextErrors ==
    \/ TickUntil(MaxTickRequests)
    \/ \E service \in ServiceCalls, committed \in BOOLEAN :
          /\ Len(intentions) < MaxIntentionsErrors \/ ExistingIntention(1) # 0
          /\ CreateDailyIntention(1, 1, service, TRUE, committed)
    \/ \E reported \in 0..1 : UpdateDailyIntentionProgress(1, reported, TRUE)
    \/ FailDailyIntention(1, TRUE)
    \/ \E committed \in BOOLEAN :
          /\ \/ Len(blocks) < MaxBlocksService
             \/ ActiveBlocks(TodayIntention(1)) # {}
          /\ CreateFocusBlock(1, committed)
    \/ \E block_id \in 1..MaxBlocksService, committed \in BOOLEAN :
          UpdateFocusBlock(1, block_id, "completed", committed)
    \/ \E service \in ServiceCalls, ai_disabled \in BOOLEAN,
          committed \in BOOLEAN :
          CreateDailyResult(1, service, ai_disabled, committed)
    \/ \E service \in ServiceCalls, committed \in BOOLEAN :
          RespondToRecoveryQuest(1, 1, "I reflected.", service, TRUE,
                                 committed)

SpecErrors == InitErrors /\ [][NextErrors]_vars

\* creation of the daily intention, with an analysis that may ask for
\* refinement
InitCreate ==
    /\ InitCommon
    /\ tz = 0
    /\ intentions = <<>>

NextCreate ==
    \/ TickUntil(MaxTickRequests)
    \/ \E u \in Users, target \in 1..MaxTargetDaily,
          service \in IntentionServiceCalls, ai_disabled \in BOOLEAN,
          committed \in BOOLEAN :
          CreateDailyIntention(u, target, service, ai_disabled, committed)
    \/ \E u \in Users, reported \in 0..MaxTargetDaily :
          UpdateDailyIntentionProgress(u, reported, TRUE)

SpecCreate == InitCreate /\ [][NextCreate]_vars

\* two workers creating focus blocks for the intention of the day
InitBlockRace == InitBlocks

NextBlockRace ==
    \/ TickUntil(MaxTickRequests)
    \/ \E w \in Workers, u \in Users : CreateFocusBlockCheck(w, u)
    \/ \E w \in Workers, committed \in BOOLEAN :
          CreateFocusBlockWrite(w, committed)
    \/ \E u \in Users, block_id \in 1..MaxBlocks,
          requested \in {"in_progress", "completed"} :
          UpdateFocusBlock(u, block_id, requested, TRUE)

SpecBlockRace == InitBlockRace /\ [][NextBlockRace]_vars

\* two workers handling the requests that grant a reward, for one user
\* with an intention and at most one focus block
InitRewardRace == InitBlocks

NextRewardRace ==
    \/ CompleteDailyIntention(1, TRUE)
    \/ Len(blocks) < MaxBlocksService /\ CreateFocusBlock(1, TRUE)
    \/ \E w \in Workers, late \in BOOLEAN :
          UpdateFocusBlockLoad(w, 1, 1, "completed", late)
    \/ \E w \in Workers, committed \in BOOLEAN :
          UpdateFocusBlockWrite(w, committed)
    \/ \E w \in Workers : CreateDailyResultCheck(w, 1)
    \/ \E w \in Workers, service \in ServiceCalls, ai_disabled \in BOOLEAN,
          committed \in BOOLEAN :
          CreateDailyResultWrite(w, service, ai_disabled, committed)
    \/ \E w \in Workers, result_id \in 1..MaxIntentions, late \in BOOLEAN :
          RespondToRecoveryQuestCheck(w, 1, result_id, "I reflected.", late)
    \/ \E w \in Workers, service \in ServiceCalls, committed \in BOOLEAN :
          RespondToRecoveryQuestWrite(w, service, TRUE, committed)

SpecRewardRace == InitRewardRace /\ [][NextRewardRace]_vars

\* two users, one owner: user 1 holds today's intention, its focus blocks
\* and its daily result; both users address them by id
InitOwnership == InitBlocks

NextOwnership ==
    \/ TickUntil(MaxTickRequests)
    \/ \E u \in Users : FailDailyIntention(u, TRUE)
    \/ \E u \in Users :
          /\ Len(blocks) < MaxBlocksService
          /\ CreateFocusBlock(u, TRUE)
    \/ \E u \in Users, block_id \in 1..(MaxBlocksService + 1),
          requested \in {"in_progress", "completed"}, committed \in BOOLEAN :
          UpdateFocusBlock(u, block_id, requested, committed)
    \/ \E u \in Users, ai_disabled \in BOOLEAN :
          CreateDailyResult(u, "dict", ai_disabled, TRUE)
    \/ \E u \in Users, intention_id \in 1..MaxIntentions :
          GetDailyResult(u, intention_id)
    \/ \E u \in Users, result_id \in 1..MaxIntentions,
          service \in ServiceCalls, committed \in BOOLEAN :
          RespondToRecoveryQuest(u, result_id, "I reflected.", service, TRUE,
                                 committed)

SpecOwnership == InitOwnership /\ [][NextOwnership]_vars

---------------------------------------------------------------------------
(* Properties of the streak engine *)

\* the date gap update_user_streak sees for a user, Infinity without a record
GapOf(u) ==
    IF users[u].last_streak_update = None THEN Infinity
    ELSE LocalDate(now, tz) - UtcDate(users[u].last_streak_update)

\* C1: longest_streak >= current_streak for every user, in every state
\* reachable from new users by calls of update_user_streak as time passes.
C1_LongestAtLeastCurrent ==
    \A u \in Users : users[u].longest_streak >= users[u].current_streak

\* a call has just extended a streak to 2 or more, and the record follows it
C1_Witness ==
    /\ last.op = "update_user_streak" /\ last.ret
    /\ users[last.u].current_streak >= 2
    /\ last.old.longest_streak < users[last.u].current_streak
    /\ users[last.u].longest_streak = users[last.u].current_streak

\* C2: a call of update_user_streak on a local date on which an earlier call
\* for the user already returned True returns False and leaves the user's
\* current_streak, longest_streak and last_streak_update as they are.
C2_SecondCallSameDayIsNoOp ==
    [][\A u \in Users :
          (/\ credited[u] = LocalDate(now, tz)
           /\ last'.u = u
           /\ UpdateUserStreak(u))
              => (~last'.ret /\ users'[u] = users[u])]_vars

C4_NoOpWhenNotBeforeToday ==
    [][\A u \in Users :
          (/\ users[u].last_streak_update # None
           /\ UtcDate(users[u].last_streak_update) >= LocalDate(now, tz)
           /\ last'.u = u
           /\ UpdateUserStreak(u))
              => (~last'.ret /\ users' = users)]_vars

\* a call has just returned False for a last_streak_update dated after today
C4_Witness ==
    /\ last.op = "update_user_streak" /\ ~last.ret
    /\ last.old.last_streak_update # None
    /\ UtcDate(last.old.last_streak_update) > LocalDate(now, tz)
    /\ users[last.u] = last.old

\* C5: no step lowers a user's longest_streak.
C5_LongestNeverDecreases ==
    [][\A u \in Users :
          users'[u].longest_streak >= users[u].longest_streak]_vars

\* a reset has just left the record above the current streak
C5_Witness ==
    /\ last.op = "update_user_streak" /\ last.ret
    /\ users[last.u].current_streak = 1
    /\ users[last.u].longest_streak >= 2
    /\ last.old.current_streak = users[last.u].longest_streak

---------------------------------------------------------------------------
(* Properties of the focus block endpoints *)

\* C6: every DailyIntention has at most one FocusBlock whose status is
\* pending or in_progress, in every state reachable by create_focus_block
\* and update_focus_block requests.
C6_AtMostOneActiveBlock ==
    \A i \in DOMAIN intentions : Cardinality(ActiveBlocks(i)) <= 1

\* C7: update_focus_block with status completed on a block whose status is
\* already completed leaves CharacterStats.xp unchanged.
C7_RecompletionGrantsNoXp ==
    [][\A block_id \in DOMAIN blocks, requested \in StatusInputs :
          (/\ Strip(requested) = "completed"
           /\ blocks[block_id].status = "completed"
           /\ last'.id = block_id /\ last'.s = requested
           /\ \E u \in Users, committed \in BOOLEAN :
                  UpdateFocusBlock(u, block_id, requested, committed))
              => stats' = stats]_vars

\* a completed block that earned its XP has just been marked completed again
C7_Witness ==
    /\ last.op = "update_focus_block" /\ last.code = 200
    /\ last.s = "completed"
    /\ last.old.status = "completed"
    /\ blocks[last.id].status = "completed"
    /\ grants[last.id] = 1
    /\ stats[last.u].xp = XP_FOCUS_BLOCK_COMPLETED

\* C8: over any sequence of update_focus_block requests, XP is granted for a
\* block at most once.
C8_XpGrantedAtMostOncePerBlock ==
    \A b \in DOMAIN grants : grants[b] <= 1

---------------------------------------------------------------------------
(* Properties of the daily intention endpoints *)

\* C9: a progress report below the stored completed_quantity is answered 400
\* and leaves the intention (completed_quantity, status) unchanged, whatever
\* the intention's status and stored quantity.
C9_RegressionRejected ==
    [][\A u \in Users, reported \in -1..(MaxTarget + 1) :
          (/\ TodayIntention(u) # 0
           /\ reported < intentions[TodayIntention(u)].completed_quantity
           /\ last'.u = u /\ last'.q = reported
           /\ \E committed \in BOOLEAN :
                  UpdateDailyIntentionProgress(u, reported, committed))
              => (last'.code = 400 /\ intentions' = intentions)]_vars

\* a report below the stored quantity has just been rejected for an intention
\* that was failed after some progress
C9_Witness ==
    /\ last.op = "update_daily_intention_progress" /\ last.code = 400
    /\ last.old.status = "failed"
    /\ last.q >= 0
    /\ last.q < last.old.completed_quantity
    /\ intentions[last.id] = last.old

\* C10: an accepted progress report sets completed_quantity to
\* min(reported, target_quantity) and the status from that quantity alone:
\* completed at or above the target, in_progress strictly between 0 and the
\* target, pending at 0.
C10_AcceptedReportSetsQuantityAndStatus ==
    [][\A u \in Users, reported \in -1..(MaxTarget + 1) :
          (/\ last'.code = 200 /\ last'.u = u /\ last'.q = reported
           /\ UpdateDailyIntentionProgress(u, reported, TRUE))
              => LET before == intentions[TodayIntention(u)]
                     after == intentions'[TodayIntention(u)]
                     target == before.target_quantity
                 IN  /\ after.target_quantity = target
                     /\ reported <= target => after.completed_quantity = reported
                     /\ reported >= target => after.completed_quantity = target
                     /\ after.completed_quantity >= target
                            => after.status = "completed"
                     /\ (0 < after.completed_quantity
                            /\ after.completed_quantity < target)
                            => after.status = "in_progress"
                     /\ after.completed_quantity = 0
                            => after.status = "pending"]_vars

\* a report above the target has just been accepted for a failed intention:
\* the quantity is capped and the status is completed
C10_Witness ==
    /\ last.op = "update_daily_intention_progress" /\ last.code = 200
    /\ last.old.status = "failed"
    /\ last.q > last.old.target_quantity
    /\ last.old.completed_quantity < last.old.target_quantity
    /\ intentions[last.id].completed_quantity = last.old.target_quantity
    /\ intentions[last.id].status = "completed"

\* C11: every DailyIntention satisfies 0 <= completed_quantity <=
\* target_quantity in every state reachable by progress reports (with any
\* reported integer), complete actions and fail actions.
C11_QuantityWithinTarget ==
    \A i \in DOMAIN intentions :
        /\ 0 <= intentions[i].completed_quantity
        /\ intentions[i].completed_quantity <= intentions[i].target_quantity

\* a report above the target has just been accepted and stored as the target
C11_Witness ==
    /\ last.op = "update_daily_intention_progress" /\ last.code = 200
    /\ last.q > last.old.target_quantity
    /\ last.old.completed_quantity > 0
    /\ intentions[last.id].completed_quantity = last.old.target_quantity

\* C12: the complete action on today's intention sets completed_quantity to
\* target_quantity and status to completed, whatever the status and the
\* quantity were.
C12_CompleteForcesCompletion ==
    [][\A u \in Users :
          (/\ last'.code = 200 /\ last'.u = u
           /\ CompleteDailyIntention(u, TRUE))
              => LET after == intentions'[TodayIntention(u)]
                 IN  /\ after.completed_quantity = after.target_quantity
                     /\ after.target_quantity
                            = intentions[TodayIntention(u)].target_quantity
                     /\ after.status = "completed"]_vars

\* a failed intention that was behind its target has just been completed
C12_Witness ==
    /\ last.op = "complete_daily_intention" /\ last.code = 200
    /\ last.old.status = "failed"
    /\ last.old.completed_quantity < last.old.target_quantity
    /\ intentions[last.id].status = "completed"
    /\ intentions[last.id].completed_quantity = last.old.target_quantity

\* C13: the fail action sets status to failed and leaves completed_quantity
\* and target_quantity as they are.
C13_FailKeepsQuantity ==
    [][\A u \in Users :
          (/\ last'.code = 200 /\ last'.u = u
           /\ FailDailyIntention(u, TRUE))
              => LET before == intentions[TodayIntention(u)]
                     after == intentions'[TodayIntention(u)]
                 IN  /\ after.status = "failed"
                     /\ after.completed_quantity = before.completed_quantity
                     /\ after.target_quantity = before.target_quantity]_vars

\* an intention with some progress has just been failed and kept it
C13_Witness ==
    /\ last.op = "fail_daily_intention" /\ last.code = 200
    /\ last.old.status = "in_progress"
    /\ last.old.completed_quantity > 0
    /\ intentions[last.id].status = "failed"
    /\ intentions[last.id].completed_quantity = last.old.completed_quantity

\* C14: completed and failed are terminal: no progress report, complete
\* action or fail action moves an intention out of completed or out of failed.
C14_TerminalStatusesStay ==
    [][\A i \in DOMAIN intentions :
          intentions[i].status \in {"completed", "failed"}
              => intentions'[i].status = intentions[i].status]_vars

---------------------------------------------------------------------------
(* Properties of the daily loop *)

\* the intentions a user created on a day
IntentionsOn(u, day) ==
    {i \in DOMAIN intentions :
        intentions[i].user_id = u /\ UtcDate(intentions[i].created_at) = day}

\* C15: each user has at most one DailyIntention per calendar day in every
\* state reachable by sequential requests, and a create request made while
\* today's intention exists is rejected and creates nothing.
C15_OneIntentionPerDay ==
    /\ [](\A u \in Users, day \in 0..UtcDate(MaxTick) :
             Cardinality(IntentionsOn(u, day)) <= 1)
    /\ [][\A u \in Users, target \in 1..MaxTargetDaily :
             (/\ last'.op = "create_daily_intention"
              /\ TodayIntention(u) # 0
              /\ last'.u = u /\ last'.q = target
              /\ \E service \in ServiceCalls, ai_disabled \in BOOLEAN,
                     committed \in BOOLEAN :
                     CreateDailyIntention(u, target, service, ai_disabled,
                                          committed))
                 => /\ last'.code = 400
                    /\ intentions' = intentions
                    /\ stats' = stats]_vars

\* a user who created an intention on each of two days has just been refused
\* a second one for today
C15_Witness ==
    /\ last.op = "create_daily_intention" /\ last.code = 400
    /\ Len(intentions) = 2
    /\ \A i \in DOMAIN intentions : intentions[i].user_id = last.u
    /\ UtcDate(intentions[1].created_at) # UtcDate(intentions[2].created_at)

\* C16: each DailyIntention has at most one DailyResult in every state
\* reachable by sequential requests, and create_daily_result for an intention
\* that already has a result is rejected, creates nothing and grants no stat.
C16_OneResultPerIntention ==
    /\ [](\A i \in DOMAIN intentions : Cardinality(ResultsOf(i)) <= 1)
    /\ [][\A u \in Users :
             (/\ last'.op = "create_daily_result"
              /\ TodayIntention(u) # 0
              /\ ResultsOf(TodayIntention(u)) # {}
              /\ last'.u = u
              /\ \E service \in ServiceCalls, ai_disabled \in BOOLEAN,
                     committed \in BOOLEAN :
                     CreateDailyResult(u, service, ai_disabled, committed))
                 => /\ last'.code = 400
                    /\ results' = results
                    /\ stats' = stats]_vars

\* a second daily result has just been refused for an intention that was
\* completed after its result recorded a failed day
C16_Witness ==
    /\ last.op = "create_daily_result" /\ last.code = 400
    /\ Cardinality(ResultsOf(last.id)) = 1
    /\ intentions[last.id].status = "completed"
    /\ \A r \in ResultsOf(last.id) : ~results[r].succeeded_failed
    /\ stats[last.u].discipline = 0

C18_AcceptedResponseIsRewarded ==
    [][\A u \in Users :
          (/\ last'.code = 200 /\ last'.u = u
           /\ \E result_id \in DOMAIN results, text \in ResponseInputs,
                  ai_disabled \in BOOLEAN :
                  RespondToRecoveryQuest(u, result_id, text, "dict",
                                         ai_disabled, TRUE))
              => /\ stats'[u].resilience = stats[u].resilience + 1
                 /\ stats'[u].xp = stats[u].xp
                        + CalculateXpWithStreakBonus(
                              XP_RECOVERY_QUEST_COMPLETED,
                              users[u].current_streak)
                 /\ users'[u].current_streak >= 1
                 /\ users'[u].last_streak_update # None]_vars

C20_CompletionRewardedOnce ==
    [][\A u \in Users :
          /\ (/\ last'.code = 201 /\ last'.u = u
               /\ TodayIntention(u) # 0
               /\ intentions[TodayIntention(u)].status = "completed"
               /\ \E ai_disabled \in BOOLEAN :
                      CreateDailyResult(u, "dict", ai_disabled, TRUE))
                 => /\ stats'[u].discipline = stats[u].discipline + 1
                    /\ stats'[u].xp = stats[u].xp
                           + CalculateXpWithStreakBonus(
                                 XP_DAILY_INTENTION_COMPLETED,
                                 users[u].current_streak)
          /\ (TodayIntention(u) # 0 /\ ResultsOf(TodayIntention(u)) # {})
                 => /\ stats'[u].discipline = stats[u].discipline
                    /\ stats'[u].xp = stats[u].xp]_vars

---------------------------------------------------------------------------
(* Properties of the rewards *)

\* C21: completing the daily intention credits the streak: after an accepted
\* complete action the user's streak has been updated today and is at least
\* 1 (1 after the first day, 2 after the next day's completion).
C21_CompletionCreditsStreak ==
    [][\A u \in Users :
          (/\ last'.op = "complete_daily_intention"
           /\ last'.code = 200 /\ last'.u = u
           /\ CompleteDailyIntention(u, TRUE))
              => /\ users'[u].current_streak >= 1
                 /\ users'[u].last_streak_update # None
                 /\ UtcDate(users'[u].last_streak_update) = UtcDate(now)]_vars

\* C22: current_streak, longest_streak and last_streak_update change only in
\* a step of the streak engine: progress reports, fail actions, focus-block
\* creation and update and daily-result creation leave all three as they
\* are; failing the day does not reset the streak.
C22_OnlyStreakEngineWritesStreak ==
    [][\A u \in Users :
          users'[u] # users[u]
              => (last'.op = "update_user_streak" /\ UpdateUserStreak(u))]_vars

\* a user with a running streak has just failed the day and kept the streak
C22_Witness ==
    /\ last.op = "fail_daily_intention" /\ last.code = 200
    /\ intentions[last.id].status = "failed"
    /\ users[last.u].current_streak >= 1
    /\ users[last.u].last_streak_update # None
    /\ blocks # <<>> /\ results # <<>>

\* C23: _calculate_xp_with_streak_bonus is non-decreasing in the streak for
\* every fixed non-negative base, and returns the base for streak 0.
C23_XpMonotoneInStreak ==
    last.op = "_calculate_xp_with_streak_bonus"
        => /\ \A longer \in StreakInputs :
                  last.old.current_streak <= longer
                      => last.old.xp_to_award
                             <= CalculateXpWithStreakBonus(last.old.base_xp,
                                                           longer)
           /\ last.old.current_streak = 0
                  => last.old.xp_to_award = last.old.base_xp

\* a call at a tie of the product, with a bonus that the next streak keeps
C23_Witness ==
    /\ last.op = "_calculate_xp_with_streak_bonus"
    /\ last.old.base_xp = 10 /\ last.old.current_streak = 165
    /\ last.old.xp_to_award = 27
    /\ CalculateXpWithStreakBonus(10, 166) = 27

\* C24: _calculate_xp_with_streak_bonus returns base_xp for a streak of 0 or
\* less and round(base_xp * (100 + current_streak) / 100) otherwise; for base
\* 10 and streak 10 it returns 11.
C24_XpIsRoundedExactProduct ==
    /\ last.op = "_calculate_xp_with_streak_bonus"
           => last.old.xp_to_award
                  = IF last.old.current_streak <= 0
                    THEN last.old.base_xp
                    ELSE RoundHundredths(
                             last.old.base_xp
                                 * (100 + last.old.current_streak))
    /\ CalculateXpWithStreakBonus(10, 10) = 11

\* XP_REWARDS, by the request that grants the reward
XpRewardOfRequest ==
    [update_focus_block |-> XP_FOCUS_BLOCK_COMPLETED,
     create_daily_result |-> XP_DAILY_INTENTION_COMPLETED,
     respond_to_recovery_quest |-> XP_RECOVERY_QUEST_COMPLETED]

\* C25: every increase of CharacterStats.xp is made by a reward-granting
\* request and equals _calculate_xp_with_streak_bonus of that reward's base
\* and the user's current_streak at the time of the grant.
C25_XpGrantsUseTheFormula ==
    [][\A u \in Users :
          stats'[u].xp # stats[u].xp
              => /\ last'.op \in DOMAIN XpRewardOfRequest
                 /\ last'.u = u
                 /\ stats'[u].xp - stats[u].xp
                        = CalculateXpWithStreakBonus(
                              XpRewardOfRequest[last'.op],
                              users[u].current_streak)]_vars

\* a focus block has just been completed by a user with a running streak,
\* and the XP grew by the formula's value
C25_Witness ==
    /\ last.op = "update_focus_block" /\ last.code = 200
    /\ last.old.status # "completed"
    /\ blocks[last.id].status = "completed"
    /\ users[last.u].current_streak = 10
    /\ grants[last.id] = 1
    /\ stats[last.u].xp = 11

\* C26: CharacterStats.xp is never negative and no step lowers it.
C26_XpNeverDecreases ==
    /\ [](\A u \in Users : stats[u].xp >= 0)
    /\ [][\A u \in Users : stats'[u].xp >= stats[u].xp]_vars

\* a second grant has just raised the XP of a user further
C26_Witness ==
    /\ last.op = "update_focus_block" /\ last.code = 200
    /\ grants[last.id] = 2
    /\ stats[last.u].xp >= 2 * XP_FOCUS_BLOCK_COMPLETED


\* C27: an onboarding step answers with the successor of the step the
\* caller supplied, in the order business stage, stretch goal, constraint
\* choice, obstacle definition, HLA definition, complete; the answer is
\* decided by the supplied step alone, whatever calls came before and
\* whatever the user row holds, and is never an earlier step.
C27_StepOrder ==
    CASE last.old.current_step = "AWAITING_BUSINESS_STAGE"
             -> "AWAITING_STRETCH_GOAL"
      [] last.old.current_step = "AWAITING_STRETCH_GOAL"
             -> "AWAITING_CONSTRAINT_CHOICE"
      [] last.old.current_step = "AWAITING_CONSTRAINT_CHOICE"
             -> "AWAITING_OBSTACLE_DEFINITION"
      [] last.old.current_step = "AWAITING_OBSTACLE_DEFINITION"
             -> "AWAITING_HLA_DEFINITION"
      [] last.old.current_step = "AWAITING_HLA_DEFINITION"
             -> "COMPLETE"

C27_OnboardingIsLinear ==
    (last.op = "onboarding_step" /\ last.code = 200)
        => /\ last.s = C27_StepOrder
           /\ StepIndex(last.s) > StepIndex(last.old.current_step)

\* the first question is answered again by a user whose onboarding is
\* already complete, and leads to the second question all the same
C27_Witness ==
    /\ last.op = "onboarding_step"
    /\ last.code = 200
    /\ last.old.current_step = "AWAITING_BUSINESS_STAGE"
    /\ last.s = "AWAITING_STRETCH_GOAL"
    /\ last.old.user.hla # NoText

\* C28: only the answer to the last question, AWAITING_HLA_DEFINITION,
\* changes the user: it stores the text as the user's hla and runs the
\* streak engine, so a new user (no hla, streak 0) ends with the text as
\* hla and a streak of 1; the four earlier steps leave the hla and the
\* streak fields as they were.
C28_OnlyFinalStepChangesUser ==
    [][\A u \in Users :
         (/\ last'.op = "onboarding_step"
          /\ last'.u = u
          /\ \E current_step \in StepInputs, user_text \in HlaInputs :
                OnboardingStep(u, current_step, user_text))
            => IF last'.old.current_step = "AWAITING_HLA_DEFINITION"
               THEN /\ users'[u].hla = last'.old.user_text
                    /\ users[u] = NewUser => users'[u].current_streak = 1
               ELSE users' = users]_vars

C28_Witness ==
    /\ last.op = "onboarding_step"
    /\ last.code = 200
    /\ last.old.current_step = "AWAITING_HLA_DEFINITION"
    /\ last.old.user = NewUser
    /\ users[last.u].hla = last.old.user_text
    /\ users[last.u].current_streak = 1
    /\ users[last.u].longest_streak = 1


\* every row of the users, character_stats, daily_intentions, focus_blocks
\* and daily_results tables
Records == <<users, stats, intentions, blocks, results>>

\* C29: validation and conflict errors are found before anything is
\* written: a refused request (a progress report below the recorded
\* quantity, a second intention for the day, a second result for an
\* intention, a second active focus block, a second response to a recovery
\* quest, a response where there is no quest, an update of a focus block of
\* an earlier day) leaves every user, stats, intention, focus block and
\* result row as it was.
C29_RefusedRequestsWriteNothing ==
    [][last'.code \in {400, 403, 409} => Records' = Records]_vars

\* a second focus block is refused while the first is still active
C29_Witness ==
    /\ last.op = "create_focus_block"
    /\ last.code = 409
    /\ Len(blocks) = 1
    /\ blocks[1].status \in ActiveStatuses

\* C30: a request that fails part-way, because the analysis, reflection or
\* coaching call fails or because the commit fails, applies nothing: no
\* stat or XP is granted and no intention, result or response is stored,
\* for create_daily_intention, create_daily_result, update_focus_block and
\* respond_to_recovery_quest.
C30_FailedRequestsWriteNothing ==
    [][(/\ last'.code = 500
        /\ last'.op \in {"create_daily_intention", "create_daily_result",
                         "update_focus_block", "respond_to_recovery_quest"})
         => Records' = Records]_vars

\* the commit of an accepted recovery response fails: the response slot
\* stays empty and no resilience is granted
C30_Witness ==
    /\ last.op = "respond_to_recovery_quest"
    /\ last.code = 500
    /\ last.id \in DOMAIN results
    /\ results[last.id].recovery_quest = MockRecoveryQuest
    /\ results[last.id].recovery_quest_response = NoText
    /\ stats[last.u].resilience = 0


\* C31: create_daily_intention stores a record only on approval: when the
\* analysis approves, one DailyIntention is created with status pending
\* and completed_quantity 0 and clarity rises by the clarity gain of the
\* analysis; when the analysis asks for refinement, no DailyIntention is
\* created and clarity stays as it is.
C31_StoredOnlyOnApproval ==
    [][\A u \in Users :
         (last'.op = "create_daily_intention" /\ last'.u = u)
            => \A target \in 1..MaxTargetDaily, ai_disabled \in BOOLEAN :
                 /\ (/\ ExistingIntention(u) = 0
                      /\ \E service \in ServiceCalls :
                            CreateDailyIntention(u, target, service,
                                                 ai_disabled, TRUE))
                       => /\ Len(intentions') = Len(intentions) + 1
                          /\ \A i \in DOMAIN intentions :
                                intentions'[i] = intentions[i]
                          /\ intentions'[Len(intentions')].user_id = u
                          /\ intentions'[Len(intentions')].status = "pending"
                          /\ intentions'[Len(intentions')].completed_quantity
                                = 0
                          /\ stats'[u].clarity = stats[u].clarity
                                + CreateAndProcessIntention(ai_disabled)
                                      .clarity_stat_gain
                          /\ stats'[u].clarity = stats[u].clarity + 1
                 /\ (\E committed \in BOOLEAN :
                         CreateDailyIntention(u, target, "refinement",
                                              ai_disabled, committed))
                       => /\ intentions' = intentions
                          /\ stats' = stats]_vars



ActiveIn(table, i) ==
    {b \in DOMAIN table :
        /\ table[b].daily_intention_id = i
        /\ table[b].status \in ActiveStatuses}

\* C33: one active focus block per intention is enforced only by a check
\* followed by a write, with no lock: a create_focus_block request whose
\* check found no active block inserts its block whatever was inserted
\* since, so two requests that both run the check before either inserts
\* both succeed and the intention ends with two active blocks.
C33_CheckThenWriteIsNotAtomic ==
    [][\A w \in Workers :
         (/\ inflight[w].phase = "checked"
          /\ inflight[w].op = "create_focus_block"
          /\ CreateFocusBlockWrite(w, TRUE))
            => /\ last'.code = 201
               /\ Cardinality(ActiveIn(blocks', inflight[w].id))
                    = Cardinality(ActiveIn(blocks, inflight[w].id)) + 1]_vars

\* both workers' requests were answered 201 and the intention has two
\* active blocks
C33_Witness ==
    /\ \A w \in Workers :
          /\ inflight[w].phase = "done"
          /\ inflight[w].op = "create_focus_block"
          /\ inflight[w].code = 201
          /\ inflight[w].id = 1
    /\ Cardinality(ActiveIn(blocks, 1)) = 2


\* C34: records of an earlier day cannot be edited: progress, complete and
\* fail act only on the intention created today, and update_focus_block
\* on a block created on an earlier date is refused (403) and changes
\* neither the block nor the user's xp.
C34_NoBackdatedEdits ==
    [][/\ intentions' # intentions
            => \A i \in DOMAIN intentions :
                  UtcDate(intentions[i].created_at) # UtcDate(now)
                     => intentions'[i] = intentions[i]
       /\ (/\ last'.op = "update_focus_block"
           /\ last' # last
           /\ last'.id \in DOMAIN blocks
           /\ UtcDate(blocks[last'.id].created_at) # UtcDate(now))
            => /\ last'.code \in {403, 404}
               /\ blocks' = blocks
               /\ stats' = stats]_vars

\* the owner asked to complete yesterday's block, still pending, and was
\* refused; yesterday's intention is still pending too
C34_Witness ==
    /\ last.op = "update_focus_block"
    /\ last.code = 403
    /\ last.s = "completed"
    /\ blocks[last.id].status = "pending"
    /\ UtcDate(blocks[last.id].created_at) < UtcDate(now)
    /\ intentions[1].status = "pending"
    /\ stats[last.u].xp = 0


PassedCheck(request) ==
    CASE request.op = "update_focus_block"
             -> request.s = "completed" /\ request.record.status # "completed"
      [] request.op = "create_daily_result"
             -> request.record.status = "completed"
      [] request.op = "respond_to_recovery_quest" -> TRUE
      [] OTHER -> FALSE

\* the stat a request rewards, and by how much
RewardField(request) ==
    CASE request.op = "update_focus_block" -> "xp"
      [] request.op = "create_daily_result" -> "discipline"
      [] OTHER -> "resilience"

RewardGain(request) ==
    IF request.op = "update_focus_block"
    THEN CompleteFocusBlockXp(request.u)
    ELSE 1

\* worker w answers its request with success after the other worker did so
\* for the same record, both having passed the once-only check before
\* either wrote
SecondOfARace(w, w2) ==
    /\ w # w2
    /\ inflight[w].phase = "checked"
    /\ inflight[w2].phase = "done"
    /\ inflight[w2].code \in {200, 201}
    /\ inflight[w2].op = inflight[w].op
    /\ inflight[w2].id = inflight[w].id
    /\ PassedCheck(inflight[w])
    /\ PassedCheck(inflight[w2])
    /\ inflight'[w].phase = "done"
    /\ inflight'[w].code \in {200, 201}

C38_StampedIffStreakStarted ==
    /\ [](\A u \in Users :
            (users[u].last_streak_update # None)
               <=> (users[u].current_streak >= 1))
    /\ [][\A u \in Users :
            (UpdateUserStreak(u) /\ last'.ret)
               => /\ users'[u].current_streak >= 1
                  /\ users'[u].last_streak_update # None]_vars

\* a streak that was running is broken by a gap and the update restarts it
\* at 1, while another user is still new: no stamp and no streak
C38_Witness ==
    /\ last.op = "update_user_streak"
    /\ last.ret
    /\ last.old.current_streak >= 2
    /\ users[last.u].current_streak = 1
    /\ users[last.u].last_streak_update = now
    /\ \E u \in Users :
          /\ users[u].last_streak_update = None
          /\ users[u].current_streak = 0


\* the user who owns a focus block or a daily result, through its intention
OwnerOfBlock(block_id) == intentions[blocks[block_id].daily_intention_id].user_id

OwnerOfResult(result_id) ==
    intentions[results[result_id].daily_intention_id].user_id

\* the request just answered addressed a block or result of another user
ForeignRequest ==
    \/ /\ last'.op = "update_focus_block"
       /\ last'.id \in DOMAIN blocks
       /\ OwnerOfBlock(last'.id) # last'.u
    \/ /\ last'.op = "respond_to_recovery_quest"
       /\ last'.id \in DOMAIN results
       /\ OwnerOfResult(last'.id) # last'.u
    \/ /\ last'.op = "get_daily_result"
       /\ \E r \in DOMAIN results :
             /\ results[r].daily_intention_id = last'.id
             /\ OwnerOfResult(r) # last'.u

\* C39: requests of one user never change another user's records:
\* update_focus_block, get_daily_result and respond_to_recovery_quest
\* addressed to a block or result owned by a different user are answered
\* as not found and leave that owner's focus blocks, daily results and
\* character stats unchanged.
C39_ForeignRecordsAreNotFound ==
    [][(last' # last /\ ForeignRequest)
          => /\ last'.code = 404
             /\ blocks' = blocks
             /\ results' = results
             /\ stats' = stats]_vars

\* user 2 answered the open recovery quest of user 1's result and was told
\* 404, while user 1 also holds a focus block that is not yet completed
C39_Witness ==
    /\ last.op = "respond_to_recovery_quest"
    /\ last.u = 2
    /\ last.code = 404
    /\ last.id \in DOMAIN results
    /\ OwnerOfResult(last.id) = 1
    /\ Truthy(results[last.id].recovery_quest)
    /\ ~Truthy(results[last.id].recovery_quest_response)
    /\ \E b \in DOMAIN blocks :
          OwnerOfBlock(b) = 1 /\ blocks[b].status # "completed"

=============================================================================
